---- MODULE Spec2Model ----
(***************************************************************************)
(* Model of the nttmcp.mcp Ansible collection modules user, user_info,     *)
(* geo_info and vip_function_info (plugins/modules).                       *)
(*                                                                         *)
(* Python values: every reference that may be None is a sequence of        *)
(* length at most one: <<>> is None and <<v>> is the value v.  Strings are *)
(* TLA+ strings, lists are sequences, dicts are functions from key strings *)
(* to such references.                                                     *)
(***************************************************************************)
EXTENDS Integers, Sequences, FiniteSets, TLC

None == <<>>
Some(v) == <<v>>
Val(o) == o[1]

\* bool(x) for a str, an int, a list and a dict reference
TruthyStr(o) == o # None /\ Val(o) # ""
TruthyInt(o) == o # None /\ Val(o) # 0
TruthyList(o) == o # None /\ Val(o) # <<>>
TruthyDict(o) == o # None /\ DOMAIN Val(o) # {}

\* dict.get(k), d[k] = v and d.pop(k)
Get(d, k) == IF k \in DOMAIN d THEN d[k] ELSE None
Put(d, k, v) == [x \in DOMAIN d \cup {k} |-> IF x = k THEN v ELSE d[x]]
Pop(d, k) == [x \in DOMAIN d \ {k} |-> d[x]]
EmptyDict == [x \in {} |-> None]

Range(s) == {s[i] : i \in DOMAIN s}

\* str(n) for a non-negative int
Digits == <<"0", "1", "2", "3", "4", "5", "6", "7", "8", "9">>
RECURSIVE str(_)
str(n) == IF n < 10 THEN Digits[n + 1] ELSE str(n \div 10) \o Digits[(n % 10) + 1]

(***************************************************************************)
(* module_utils.utils.compare_json(a, b, parent): the field-level delta of *)
(* two dicts.  A key differs when only one dict has it or when the values  *)
(* differ; the role lists are compared as unordered sets of names, every   *)
(* other value by deep equality.  changes is (delta is non-empty).         *)
(***************************************************************************)
SameValue(k, x, y) ==
    IF k = "role" /\ x # None /\ y # None
    THEN Range(Val(x)) = Range(Val(y))
    ELSE x = y

compare_json(a, b) ==
    LET delta == {k \in DOMAIN a \cup DOMAIN b :
                     \/ k \notin DOMAIN a
                     \/ k \notin DOMAIN b
                     \/ ~SameValue(k, a[k], b[k])}
    IN [changes |-> delta # {}, delta |-> delta]

(***************************************************************************)
(* user.compare_user: the candidate record new_user and its comparison     *)
(* with the observed user.                                                 *)
(***************************************************************************)
SetIfStr(d, k, o) == IF TruthyStr(o) THEN Put(d, k, o) ELSE d

CandidateRoles(p, d, full_compare) ==
    IF full_compare /\ TruthyList(p.roles) THEN Put(d, "role", p.roles) ELSE d

\* CandidatePhone with remove_phone honoured only when no phone is supplied
CandidatePhone_SuppliedPhoneWins(p, d) ==
    IF p.remove_phone /\ ~TruthyInt(p.phone)
    THEN IF TruthyDict(Get(d, "phone")) THEN Pop(d, "phone") ELSE d
    ELSE LET d1 == IF TruthyInt(p.phone)
                   THEN LET ph == IF ~TruthyDict(Get(d, "phone"))
                                  THEN EmptyDict ELSE Val(d["phone"])
                        IN Put(d, "phone", Some(Put(ph, "number", Some(str(Val(p.phone))))))
                   ELSE d
         IN IF TruthyInt(p.phone_country_code) /\ TruthyDict(Get(d1, "phone"))
            THEN Put(d1, "phone",
                     Some(Put(Val(d1["phone"]), "countryCode",
                              Some(str(Val(p.phone_country_code))))))
            ELSE d1

\* compare_user: remove_phone, phone and phone_country_code in the candidate
CandidatePhone(p, d) ==
    IF p.remove_phone
    THEN IF TruthyDict(Get(d, "phone")) THEN Pop(d, "phone") ELSE d
    ELSE LET d1 == IF TruthyInt(p.phone)
                   THEN LET ph == IF ~TruthyDict(Get(d, "phone"))
                                  THEN EmptyDict ELSE Val(d["phone"])
                        IN Put(d, "phone", Some(Put(ph, "number", Some(str(Val(p.phone))))))
                   ELSE d
         IN IF TruthyInt(p.phone_country_code) /\ TruthyDict(Get(d1, "phone"))
            THEN Put(d1, "phone",
                     Some(Put(Val(d1["phone"]), "countryCode",
                              Some(str(Val(p.phone_country_code))))))
            ELSE d1

\* new_user writing the email under the parameter's name
new_user_EmailKey(p, user, full_compare) ==
    LET d1 == SetIfStr(user, "fullName", p.fullname)
        d2 == SetIfStr(d1, "lastName", p.lastname)
        d3 == SetIfStr(d2, "firstName", p.firstname)
        d4 == SetIfStr(d3, "email", p.email)
        d5 == CandidateRoles(p, d4, full_compare)
        d6 == CandidatePhone(p, d5)
        d7 == SetIfStr(d6, "department", p.department)
        d8 == SetIfStr(d7, "customDefined1", p.custom_1)
    IN SetIfStr(d8, "customDefined2", p.custom_2)

new_user(p, user, full_compare) ==
    LET d1 == SetIfStr(user, "fullName", p.fullname)
        d2 == SetIfStr(d1, "lastName", p.lastname)
        d3 == SetIfStr(d2, "firstName", p.firstname)
        d4 == SetIfStr(d3, "emailAddress", p.email)
        d5 == CandidateRoles(p, d4, full_compare)
        d6 == CandidatePhone(p, d5)
        d7 == SetIfStr(d6, "department", p.department)
        d8 == SetIfStr(d7, "customDefined1", p.custom_1)
    IN SetIfStr(d8, "customDefined2", p.custom_2)

compare_user(p, user, full_compare) == compare_json(new_user(p, user, full_compare), user)

\* compare_user_roles comparing the two lists as they are
compare_user_roles_Ordered(p, roles) ==
    [changes |-> p.roles # roles, delta |-> IF p.roles # roles THEN {"role"} ELSE {}]

\* user.compare_user_roles(module, roles)
compare_user_roles(p, roles) ==
    compare_json([role |-> p.roles], [role |-> roles])

(***************************************************************************)
(* Bounds of the model.                                                    *)
(***************************************************************************)
\* at most this many groups of parameters differ from the argument_spec defaults
MaxAspects == 3
\* longest roles list
MaxRoles == 2
\* changes made by other clients of the API during one run
MaxOthers == 1

Modules == {"user", "user_info", "geo_info", "vip_function_info"}
Usernames == {"alice", "bob"}
\* the account of the API credentials (client.get_my_user)
Me == "alice"
RoleNames == {"r1", "r2"}
StrVals == {"", "a", "b"}
PhoneVals == {5, 6}
CountryCodes == {1}
StrFields == {"fullname", "firstname", "lastname", "email", "department",
              "custom_1", "custom_2"}

\* module_utils.utils.get_regions(): the region catalog; holds the default 'na'
get_regions == {"na", "eu", "au"}

\* lists of distinct role names, in every order
RoleLists ==
    UNION {{s \in [1..n -> RoleNames] : \A i, j \in 1..n : s[i] = s[j] => i = j}
           : n \in 0..MaxRoles}

(***************************************************************************)
(* The users the API may hold.                                             *)
(***************************************************************************)
BareUser(name) ==
    [userName |-> Some(name), fullName |-> Some("a"), firstName |-> Some("a"),
     lastName |-> Some("a"), emailAddress |-> Some("a"), role |-> Some(<<"r1">>)]

FullUser(name) ==
    [userName |-> Some(name), fullName |-> Some("a"), firstName |-> Some("a"),
     lastName |-> Some("a"), emailAddress |-> Some("a"),
     department |-> Some("a"), customDefined1 |-> Some("a"),
     customDefined2 |-> Some("a"),
     phone |-> Some([number |-> Some("5"), countryCode |-> Some("1")]),
     role |-> Some(<<"r1", "r2">>)]

Remotes ==
    {[alice |-> Some(FullUser("alice")), bob |-> None],
     [alice |-> Some(BareUser("alice")), bob |-> Some(FullUser("bob"))],
     [alice |-> Some(FullUser("alice")), bob |-> Some(BareUser("bob"))]}

(***************************************************************************)
(* user.main argument_spec: the parameters and their defaults.             *)
(***************************************************************************)
DefaultParams ==
    [region |-> "na", username |-> Some("bob"), my_user |-> FALSE,
     password |-> None, new_password |-> None, roles |-> None,
     fullname |-> None, firstname |-> None, lastname |-> None, email |-> None,
     phone_country_code |-> None, phone |-> None, remove_phone |-> FALSE,
     department |-> None, custom_1 |-> None, custom_2 |-> None,
     state |-> "present"]

\* the parameters read by the other modules
InfoParams(m) ==
    IF m = "user_info"
    THEN [region |-> "na", my_user |-> FALSE, username |-> None,
          firstname |-> None, lastname |-> None, email |-> None,
          phone_country_code |-> None, phone |-> None, state |-> None,
          department |-> None]
    ELSE IF m = "geo_info"
    THEN [region |-> "na", id |-> None, name |-> None, is_home |-> FALSE]
    ELSE [region |-> "na", datacenter |-> "dc", network_domain |-> "nd",
          type |-> "health_monitor"]

\* the str parameters: those in S are supplied with the value v
WithStrings(p, S, v) ==
    [k \in DOMAIN p |-> IF k \in S THEN Some(v) ELSE p[k]]

RequiredStr == {"fullname", "firstname", "lastname", "email"}
StrSupplied == {{}} \cup {{f} : f \in StrFields} \cup {RequiredStr, StrFields}
Opt(S) == {None} \cup {Some(v) : v \in S}
B2N(b) == IF b THEN 1 ELSE 0

VARIABLES
    mod,         \* the module invoked
    params,      \* module.params
    check_mode,  \* module.check_mode
    cred,        \* what get_credentials(module) does: "ok", "false", "import_error"
    remote,      \* the users held by the Cloud Control API, by username
    pc,          \* position in main()
    client,      \* TRUE once NTTMCPClient(...) has been constructed
    user,        \* main's local user
    changed,     \* main's local changed
    calls,       \* the client calls issued so far, in order
    result,      \* the reported result: None until exit_json / fail_json
    others,      \* the changes made so far by other clients of the API
    run          \* 1 in the invocation, 2 once the same invocation is repeated

vars == <<mod, params, check_mode, cred, remote, pc, client, user, changed, calls,
          result, others, run>>
invocation == <<mod, params, check_mode, cred, run>>

WriteOps == {"create_user", "update_user", "set_user_roles", "change_user_password",
             "remove_user"}

(***************************************************************************)
(* Init: one invocation of one module.  The parameters differ from the     *)
(* defaults in at most MaxAspects groups.                                  *)
(***************************************************************************)
InitUser ==
    /\ mod = "user"
    /\ \E S \in StrSupplied, v \in StrVals :
       \E ph \in Opt(PhoneVals), cc \in Opt(CountryCodes), rm \in BOOLEAN :
       LET n1 == B2N(S # {}) + B2N(ph # None \/ cc # None \/ rm) IN
       /\ S = {} => v = "a"
       /\ \E ro \in Opt(RoleLists), np \in Opt({"", "p"}), pw \in Opt({"p"}) :
          LET n2 == n1 + B2N(ro # None) + B2N(np # None) + B2N(pw # None) IN
          /\ n2 <= MaxAspects
          /\ \E st \in {"present", "absent"}, mu \in BOOLEAN, un \in Usernames,
                chk \in BOOLEAN, rg \in {"na", "zz"},
                c \in {"ok", "false", "import_error"} :
             /\ n2 + B2N(st # "present") + B2N(mu) + B2N(un # "bob") + B2N(chk)
                   + B2N(rg # "na") + B2N(c # "ok") <= MaxAspects
             \* parameters that the run never reads keep their defaults
             /\ (st = "absent" \/ rg # "na" \/ c # "ok") => n2 = 0
             /\ params = [WithStrings(DefaultParams, S, v) EXCEPT
                              !.phone = ph, !.phone_country_code = cc,
                              !.remove_phone = rm, !.roles = ro,
                              !.new_password = np, !.password = pw,
                              !.state = st, !.my_user = mu,
                              !.username = Some(un), !.region = rg]
             /\ check_mode = chk
             /\ cred = c

InitInfo ==
    /\ mod \in Modules \ {"user"}
    /\ \E rg \in {"na", "zz"}, mu \in BOOLEAN, un \in Opt(Usernames),
          fn \in Opt({"a", "b"}), dp \in Opt({"a"}) :
          /\ mod # "user_info" => ~mu /\ un = None /\ fn = None /\ dp = None
          /\ params = IF mod = "user_info"
                      THEN [InfoParams(mod) EXCEPT !.region = rg, !.my_user = mu,
                                                   !.username = un, !.firstname = fn,
                                                   !.department = dp]
                      ELSE [InfoParams(mod) EXCEPT !.region = rg]
    /\ check_mode \in BOOLEAN
    /\ cred \in {"ok", "false", "import_error"}

Init ==
    /\ InitUser \/ InitInfo
    /\ remote \in Remotes
    /\ pc = "get_credentials"
    /\ client = FALSE
    /\ user = None
    /\ changed = FALSE
    /\ calls = <<>>
    /\ result = None
    /\ others = 0
    /\ run = 1

(***************************************************************************)
(* AnsibleModule.exit_json / fail_json end the process; an exception that  *)
(* no handler catches ends it with a traceback and no reported result.     *)
(***************************************************************************)
exit_json(chg, data, msg) ==
    /\ result' = Some([kind |-> "exit_json", changed |-> chg, data |-> data, msg |-> msg])
    /\ pc' = "done"

fail_json(msg) ==
    /\ result' = Some([kind |-> "fail_json", changed |-> None, data |-> None, msg |-> msg])
    /\ pc' = "done"

traceback ==
    /\ result' = None
    /\ pc' = "crashed"

\* one client call: its name, the username it names, its other arguments, whether
\* it returned (ok) or raised NTTMCPAPIException, and the user it returned
Call(op, username, args, ok, ret) ==
    calls' = Append(calls, [op |-> op, username |-> username, args |-> args,
                            ok |-> ok, ret |-> ret])

(***************************************************************************)
(* provider.NTTMCPClient: what an accepted write does to the API's users.  *)
(***************************************************************************)
SetIfSome(d, k, o) == IF o # None THEN Put(d, k, o) ELSE d

ApiPhone(d, args) ==
    IF args.phone # None
    THEN Put(d, "phone",
             Some(SetIfSome([number |-> Some(str(Val(args.phone)))], "countryCode",
                            IF args.phone_country_code = None THEN None
                            ELSE Some(str(Val(args.phone_country_code))))))
    ELSE d

ApiFields(d, args) ==
    LET d1 == SetIfSome(d, "fullName", args.fullname)
        d2 == SetIfSome(d1, "firstName", args.firstname)
        d3 == SetIfSome(d2, "lastName", args.lastname)
        d4 == SetIfSome(d3, "emailAddress", args.email)
        d5 == ApiPhone(d4, args)
        d6 == SetIfSome(d5, "department", args.department)
        d7 == SetIfSome(d6, "customDefined1", args.custom_1)
    IN SetIfSome(d7, "customDefined2", args.custom_2)

ApiRoles(roles) == IF roles = None THEN Some(<<>>) ELSE roles

Apply(op, username, args) ==
    IF op = "create_user"
    THEN [remote EXCEPT ![username] =
              Some(ApiFields([userName |-> Some(username), role |-> ApiRoles(args.roles)],
                             args))]
    ELSE IF op = "update_user"
    THEN [remote EXCEPT ![username] = Some(ApiFields(Val(@), args))]
    ELSE IF op = "set_user_roles"
    THEN [remote EXCEPT ![username] = Some(Put(Val(@), "role", ApiRoles(args.roles)))]
    ELSE IF op = "remove_user"
    THEN [remote EXCEPT ![username] = None]
    ELSE remote

\* the API accepts a create of a new username and any other write of an existing one
Acceptable(op, username) ==
    /\ username \in DOMAIN remote
    /\ (op = "create_user") = (remote[username] = None)

\* a write call: accepted and applied, or NTTMCPAPIException
Write(op, username, args, ok) ==
    /\ ok => username # None /\ Acceptable(op, Val(username))
    /\ Call(op, username, args, ok, None)
    /\ remote' = IF ok THEN Apply(op, Val(username), args) ELSE remote

\* client.get_my_user() / client.get_user(username): the user, or None
Lookup(r, my_user, username) ==
    IF my_user THEN r[Me]
    ELSE IF username # None /\ Val(username) \in DOMAIN r THEN r[Val(username)]
    ELSE None

Read(my_user, username, ok) ==
    Call(IF my_user THEN "get_my_user" ELSE "get_user",
         IF my_user THEN None ELSE username, EmptyDict, ok,
         IF ok THEN Lookup(remote, my_user, username) ELSE None)

(***************************************************************************)
(* main() of every module up to the construction of the client.            *)
(***************************************************************************)
\* credentials = get_credentials(module), ImportError reported
GetCredentials ==
    /\ pc = "get_credentials"
    /\ IF cred = "import_error"
       THEN fail_json("ImportError")
       ELSE pc' = "check_region" /\ UNCHANGED result
    /\ UNCHANGED <<invocation, remote, client, user, changed, calls, others>>

\* the region supplied is valid
CheckRegion ==
    /\ pc = "check_region"
    /\ IF params.region \notin get_regions
       THEN fail_json("Invalid region")
       ELSE pc' = "check_credentials" /\ UNCHANGED result
    /\ UNCHANGED <<invocation, remote, client, user, changed, calls, others>>

\* CheckCredentials testing for None where get_credentials returns False
CheckCredentials_IsNone ==
    /\ pc = "check_credentials"
    /\ IF cred = "none"
       THEN fail_json("Could not load the user credentials")
       ELSE pc' = "new_client" /\ UNCHANGED result
    /\ UNCHANGED <<invocation, remote, client, user, changed, calls, others>>

\* credentials is False
CheckCredentials ==
    /\ pc = "check_credentials"
    /\ IF cred = "false"
       THEN fail_json("Could not load the user credentials")
       ELSE pc' = "new_client" /\ UNCHANGED result
    /\ UNCHANGED <<invocation, remote, client, user, changed, calls, others>>

\* client = NTTMCPClient(credentials, region); geo_info has no handler around it
NewClient ==
    /\ pc = "new_client"
    /\ \E ok \in BOOLEAN :
          IF ok
          THEN /\ client' = TRUE
               /\ pc' = IF mod = "user" THEN "search_user" ELSE mod
               /\ UNCHANGED result
          ELSE /\ client' = FALSE
               /\ IF mod = "geo_info" THEN traceback ELSE fail_json("NTTMCPAPIException")
    /\ UNCHANGED <<invocation, remote, user, changed, calls, others>>

(***************************************************************************)
(* user.main after the client exists.                                      *)
(***************************************************************************)
\* Search for the user
SearchUser ==
    /\ pc = "search_user"
    /\ \E ok \in BOOLEAN :
          /\ Read(params.my_user, params.username, ok)
          /\ IF ok
             THEN /\ user' = Lookup(remote, params.my_user, params.username)
                  /\ pc' = "state"
                  /\ UNCHANGED result
             ELSE /\ fail_json("NTTMCPAPIException")
                  /\ UNCHANGED user
    /\ UNCHANGED <<invocation, remote, client, changed, others>>

\* MainState without the test of the fetched user on the present branch
MainState_CreateUntested ==
    /\ pc = "state"
    /\ IF params.state = "present"
       THEN IF check_mode
            THEN exit_json(None, None, "A new user will be created")
            ELSE pc' = "create_user" /\ UNCHANGED result
       ELSE IF user = None
            THEN exit_json(None, None, "User not found")
            ELSE IF check_mode
                 THEN exit_json(None, None, "An existing user will be removed")
                 ELSE pc' = "delete_user" /\ UNCHANGED result
    /\ UNCHANGED <<invocation, remote, client, user, changed, calls, others>>

\* MainState without the test of the fetched user on the absent branch
MainState_DeleteUntested ==
    /\ pc = "state"
    /\ IF params.state = "present"
       THEN IF user = None
            THEN IF check_mode
                 THEN exit_json(None, None, "A new user will be created")
                 ELSE pc' = "create_user" /\ UNCHANGED result
            ELSE pc' = "change_password" /\ UNCHANGED result
       ELSE IF check_mode
            THEN exit_json(None, None, "An existing user will be removed")
            ELSE pc' = "delete_user" /\ UNCHANGED result
    /\ UNCHANGED <<invocation, remote, client, user, changed, calls, others>>

\* if state == 'present' ... elif state == 'absent': the branches that issue no call
MainState ==
    /\ pc = "state"
    /\ IF params.state = "present"
       THEN IF user = None
            THEN IF check_mode
                 THEN exit_json(None, None, "A new user will be created")
                 ELSE pc' = "create_user" /\ UNCHANGED result
            ELSE pc' = "change_password" /\ UNCHANGED result
       ELSE IF user = None
            THEN exit_json(None, None, "User not found")
            ELSE IF check_mode
                 THEN exit_json(None, None, "An existing user will be removed")
                 ELSE pc' = "delete_user" /\ UNCHANGED result
    /\ UNCHANGED <<invocation, remote, client, user, changed, calls, others>>

\* CreateInvalid without the phone_country_code test
CreateInvalid_NoPhoneTest(p) ==
    IF None \in {p.username, p.password, p.fullname, p.firstname, p.lastname, p.email}
    THEN Some("A valid value for username, password, fullname, firstname, lastname and email are required")
    ELSE None

\* create_user: input validation
CreateInvalid(p) ==
    IF None \in {p.username, p.password, p.fullname, p.firstname, p.lastname, p.email}
    THEN Some("A valid value for username, password, fullname, firstname, lastname and email are required")
    ELSE IF p.phone # None /\ p.phone_country_code = None
    THEN Some("phone_country_code is required when a value for phone is present")
    ELSE None

\* CreateArgs with the password left out of the payload
CreateArgs_PasswordOmitted(p) ==
    [password |-> None, roles |-> p.roles, fullname |-> p.fullname,
     firstname |-> p.firstname, lastname |-> p.lastname, email |-> p.email,
     phone |-> p.phone, phone_country_code |-> p.phone_country_code,
     department |-> p.department, custom_1 |-> p.custom_1, custom_2 |-> p.custom_2]

\* client.create_user(username, password, roles, fullname, ..., custom_2)
CreateArgs(p) ==
    [password |-> p.password, roles |-> p.roles, fullname |-> p.fullname,
     firstname |-> p.firstname, lastname |-> p.lastname, email |-> p.email,
     phone |-> p.phone, phone_country_code |-> p.phone_country_code,
     department |-> p.department, custom_1 |-> p.custom_1, custom_2 |-> p.custom_2]

\* create_user up to client.create_user(...)
create_user ==
    /\ pc = "create_user"
    /\ IF CreateInvalid(params) # None
       THEN /\ fail_json(Val(CreateInvalid(params)))
            /\ UNCHANGED <<remote, calls>>
       ELSE \E ok \in BOOLEAN :
               /\ Write("create_user", params.username, CreateArgs(params), ok)
               /\ IF ok
                  THEN pc' = "create_user_get" /\ UNCHANGED result
                  ELSE fail_json("NTTMCPAPIException")
    /\ UNCHANGED <<invocation, client, user, changed, others>>

\* create_user: sleep(3), client.get_user(username), exit_json(changed=True, data=user)
create_user_get ==
    /\ pc = "create_user_get"
    /\ \E ok \in BOOLEAN :
          /\ Read(FALSE, params.username, ok)
          /\ IF ok
             THEN exit_json(Some(TRUE), Lookup(remote, FALSE, params.username), "")
             ELSE fail_json("NTTMCPAPIException")
    /\ UNCHANGED <<invocation, remote, client, user, changed, others>>

\* change_password without main's changed = True after it
change_password_FlagNotSet ==
    /\ pc = "change_password"
    /\ IF TruthyStr(params.new_password)
       THEN \E ok \in BOOLEAN :
               /\ Write("change_user_password", Get(Val(user), "userName"),
                        [password |-> params.new_password], ok)
               /\ IF ok
                  THEN pc' = "compare_user" /\ UNCHANGED <<changed, result>>
                  ELSE fail_json("NTTMCPAPIException") /\ UNCHANGED changed
       ELSE /\ pc' = "compare_user"
            /\ UNCHANGED <<remote, changed, calls, result>>
    /\ UNCHANGED <<invocation, client, user, others>>

\* change_password issued only when the comparison finds other changes
change_password_OnlyWithChanges ==
    /\ pc = "change_password"
    /\ IF TruthyStr(params.new_password) /\ compare_user(params, Val(user), TRUE).changes
       THEN \E ok \in BOOLEAN :
               /\ Write("change_user_password", Get(Val(user), "userName"),
                        [password |-> params.new_password], ok)
               /\ IF ok
                  THEN changed' = TRUE /\ pc' = "compare_user" /\ UNCHANGED result
                  ELSE fail_json("NTTMCPAPIException") /\ UNCHANGED changed
       ELSE /\ pc' = "compare_user"
            /\ UNCHANGED <<remote, changed, calls, result>>
    /\ UNCHANGED <<invocation, client, user, others>>

\* if module.params.get('new_password'): change_password(module, client, user)
change_password ==
    /\ pc = "change_password"
    /\ IF TruthyStr(params.new_password)
       THEN \E ok \in BOOLEAN :
               /\ Write("change_user_password", Get(Val(user), "userName"),
                        [password |-> params.new_password], ok)
               /\ IF ok
                  THEN changed' = TRUE /\ pc' = "compare_user" /\ UNCHANGED result
                  ELSE fail_json("NTTMCPAPIException") /\ UNCHANGED changed
       ELSE /\ pc' = "compare_user"
            /\ UNCHANGED <<remote, changed, calls, result>>
    /\ UNCHANGED <<invocation, client, user, others>>

\* compare_user(module, user, True), which reports and ends a check-mode run,
\* then compare_user_roles(module, user.get('role'))
MainCompare ==
    /\ pc = "compare_user"
    /\ IF check_mode
       THEN exit_json(None, Some(compare_user(params, Val(user), TRUE)), "")
       ELSE /\ pc' = IF compare_user_roles(params, Get(Val(user), "role")).changes
                     THEN "update_user_roles" ELSE "compare_fields"
            /\ UNCHANGED result
    /\ UNCHANGED <<invocation, remote, client, user, changed, calls, others>>

\* update_user_roles with the exception of set_user_roles swallowed
update_user_roles_Swallowed ==
    /\ pc = "update_user_roles"
    /\ \E ok \in BOOLEAN :
          /\ Write("set_user_roles", params.username, [roles |-> params.roles], ok)
          /\ pc' = "update_user_roles_get"
          /\ UNCHANGED result
    /\ UNCHANGED <<invocation, client, user, changed, others>>

\* update_user_roles up to client.set_user_roles(username, roles)
update_user_roles ==
    /\ pc = "update_user_roles"
    /\ \E ok \in BOOLEAN :
          /\ Write("set_user_roles", params.username, [roles |-> params.roles], ok)
          /\ IF ok
             THEN pc' = "update_user_roles_get" /\ UNCHANGED result
             ELSE fail_json("NTTMCPAPIException")
    /\ UNCHANGED <<invocation, client, user, changed, others>>

\* during the sleep(3) another client of the API changes or removes the user
\* that the run is about to read again
OtherClient ==
    /\ pc = "update_user_roles_get"
    /\ others < MaxOthers
    /\ others' = others + 1
    /\ \E u \in {IF params.my_user THEN Me ELSE Val(params.username)} :
          /\ remote[u] # None
          /\ \/ remote' = [remote EXCEPT ![u] = None]
             \/ remote' = [remote EXCEPT ![u] = Some(Put(Val(@), "fullName", Some("c")))]
    /\ UNCHANGED <<invocation, pc, client, user, changed, calls, result>>

\* update_user_roles_get with the password change placed after the role update
update_user_roles_get_ThenPassword ==
    /\ pc = "update_user_roles_get"
    /\ \E ok \in BOOLEAN :
          /\ Read(params.my_user, params.username, ok)
          /\ IF ok
             THEN /\ user' = Lookup(remote, params.my_user, params.username)
                  /\ changed' = TRUE
                  /\ pc' = IF Lookup(remote, params.my_user, params.username) = None
                           THEN "compare_fields" ELSE "change_password"
                  /\ UNCHANGED result
             ELSE /\ fail_json("NTTMCPAPIException")
                  /\ UNCHANGED <<user, changed>>
    /\ UNCHANGED <<invocation, remote, client, others>>

\* update_user_roles: sleep(3), search for the user, return user
update_user_roles_get ==
    /\ pc = "update_user_roles_get"
    /\ \E ok \in BOOLEAN :
          /\ Read(params.my_user, params.username, ok)
          /\ IF ok
             THEN /\ user' = Lookup(remote, params.my_user, params.username)
                  /\ changed' = TRUE
                  /\ pc' = "compare_fields"
                  /\ UNCHANGED result
             ELSE /\ fail_json("NTTMCPAPIException")
                  /\ UNCHANGED <<user, changed>>
    /\ UNCHANGED <<invocation, remote, client, others>>

\* compare_user on a user that is None: deepcopy(None) is None, and the first
\* item assignment or .get on it raises TypeError / AttributeError
CompareRaises(p) ==
    \/ \E f \in {"fullname", "lastname", "firstname", "email", "department",
                 "custom_1", "custom_2"} : TruthyStr(p[f])
    \/ p.remove_phone
    \/ TruthyInt(p.phone)
    \/ TruthyInt(p.phone_country_code)

\* MainCompareFields testing the comparison's result dict, not its 'changes'
MainCompareFields_ResultTruthy ==
    /\ pc = "compare_fields"
    /\ IF user = None
       THEN \/ traceback
            \/ /\ ~CompareRaises(params)
               /\ exit_json(Some(changed), user, "")
       ELSE pc' = "update_user" /\ UNCHANGED result
    /\ UNCHANGED <<invocation, remote, client, user, changed, calls, others>>

\* MainCompareFields with the comparison made against the initial search's user
MainCompareFields_InitialSnapshot ==
    /\ pc = "compare_fields"
    /\ IF user = None
       THEN \/ traceback
            \/ /\ ~CompareRaises(params)
               /\ exit_json(Some(changed), user, "")
       ELSE IF compare_user(params, Val(calls[1].ret), FALSE).changes
            THEN pc' = "update_user" /\ UNCHANGED result
            ELSE exit_json(Some(changed), user, "")
    /\ UNCHANGED <<invocation, remote, client, user, changed, calls, others>>

\* compare_result = compare_user(module, user, False); update_user or exit_json
MainCompareFields ==
    /\ pc = "compare_fields"
    /\ IF user = None
       THEN \/ traceback
            \/ /\ ~CompareRaises(params)
               /\ exit_json(Some(changed), user, "")
       ELSE IF compare_user(params, Val(user), FALSE).changes
            THEN pc' = "update_user" /\ UNCHANGED result
            ELSE exit_json(Some(changed), user, "")
    /\ UNCHANGED <<invocation, remote, client, user, changed, calls, others>>

UpdateArgs(p) ==
    [fullname |-> p.fullname, firstname |-> p.firstname, lastname |-> p.lastname,
     email |-> p.email, phone |-> p.phone,
     phone_country_code |-> p.phone_country_code, department |-> p.department,
     custom_1 |-> p.custom_1, custom_2 |-> p.custom_2]

\* update_user up to client.update_user(username=user.get('userName'), ...)
update_user ==
    /\ pc = "update_user"
    /\ \E ok \in BOOLEAN :
          /\ Write("update_user", Get(Val(user), "userName"), UpdateArgs(params), ok)
          /\ IF ok
             THEN pc' = "update_user_get" /\ UNCHANGED result
             ELSE fail_json("NTTMCPAPIException")
    /\ UNCHANGED <<invocation, client, user, changed, others>>

\* update_user_get reporting the user it was given instead of the one re-read
update_user_get_StaleData ==
    /\ pc = "update_user_get"
    /\ \E ok \in BOOLEAN :
          /\ Read(params.my_user, Get(Val(user), "userName"), ok)
          /\ IF ok
             THEN exit_json(Some(TRUE), user, "")
             ELSE fail_json("NTTMCPAPIException")
    /\ UNCHANGED <<invocation, remote, client, user, changed, others>>

\* update_user: sleep(3), search for the user, exit_json(changed=True, data=user)
update_user_get ==
    /\ pc = "update_user_get"
    /\ \E ok \in BOOLEAN :
          /\ Read(params.my_user, Get(Val(user), "userName"), ok)
          /\ IF ok
             THEN exit_json(Some(TRUE),
                            Lookup(remote, params.my_user, Get(Val(user), "userName")), "")
             ELSE fail_json("NTTMCPAPIException")
    /\ UNCHANGED <<invocation, remote, client, user, changed, others>>

\* delete_user(module, client, username)
delete_user ==
    /\ pc = "delete_user"
    /\ IF params.username = None
       THEN /\ fail_json("A valid username is required")
            /\ UNCHANGED <<remote, calls>>
       ELSE \E ok \in BOOLEAN :
               /\ Write("remove_user", params.username, EmptyDict, ok)
               /\ IF ok
                  THEN exit_json(Some(TRUE), None, "removed")
                  ELSE fail_json("Failed to remove the user")
    /\ UNCHANGED <<invocation, client, user, changed, others>>

(***************************************************************************)
(* The lookup modules after the client exists.                             *)
(***************************************************************************)
\* the key of the user record that each filter of list_users is matched with
FilterKey ==
    [firstname |-> "firstName", lastname |-> "lastName", email |-> "emailAddress",
     phone_country_code |-> "countryCode", phone |-> "number", state |-> "state",
     department |-> "department"]

\* the user held under name passes the filters f that are given
Passes(name, f) ==
    /\ remote[name] # None
    /\ \A k \in DOMAIN f : f[k] # None => Get(Val(remote[name]), FilterKey[k]) = f[k]

\* client.list_users(firstname, ..., department): the users the API holds that
\* match every filter given
list_users(f) ==
    (IF Passes("alice", f) THEN <<Val(remote["alice"])>> ELSE <<>>)
    \o (IF Passes("bob", f) THEN <<Val(remote["bob"])>> ELSE <<>>)

\* the filters user_info.main hands to client.list_users
ListFilters(p) ==
    [firstname |-> p.firstname, lastname |-> p.lastname, email |-> p.email,
     phone_country_code |-> p.phone_country_code, phone |-> p.phone,
     state |-> p.state, department |-> p.department]

\* user_info appending what the lookup returned without testing it for None
user_info_NoneAppended ==
    /\ pc = "user_info"
    /\ \E ok \in BOOLEAN :
          LET single == params.my_user \/ params.username # None
              found == Lookup(remote, params.my_user, params.username)
              users == IF single THEN <<found>> ELSE list_users(ListFilters(params))
          IN /\ IF single
                THEN Read(params.my_user, params.username, ok)
                ELSE Call("list_users", None, ListFilters(params), ok, None)
             /\ IF ok
                THEN exit_json(None, Some([count |-> Len(users), user |-> users]), "")
                ELSE fail_json("Could not retrieve a list of users")
    /\ UNCHANGED <<invocation, remote, client, user, changed, others>>

\* user_info.main: get_my_user / get_user / list_users, count, exit_json
user_info ==
    /\ pc = "user_info"
    /\ \E ok \in BOOLEAN :
          LET single == params.my_user \/ params.username # None
              found == Lookup(remote, params.my_user, params.username)
              users == IF single
                       THEN IF found # None THEN <<Val(found)>> ELSE <<>>
                       ELSE list_users(ListFilters(params))
          IN /\ IF single
                THEN Read(params.my_user, params.username, ok)
                ELSE Call("list_users", None, ListFilters(params), ok, None)
             /\ IF ok
                THEN exit_json(None, Some([count |-> Len(users), user |-> users]), "")
                ELSE fail_json("Could not retrieve a list of users")
    /\ UNCHANGED <<invocation, remote, client, user, changed, others>>

\* geo_info.get_geo: client.get_geo(...), exit_json(data=return_data)
get_geo ==
    /\ pc = "geo_info"
    /\ \E ok \in BOOLEAN :
          /\ Call("get_geo", None, EmptyDict, ok, None)
          /\ IF ok
             THEN exit_json(None, Some([count |-> 1, geo |-> <<"geo">>]), "")
             ELSE fail_json("Could not get a list of Geos")
    /\ UNCHANGED <<invocation, remote, client, user, changed, others>>

\* vip_function_info.main: network = client.get_network_domain_by_name(...);
\* network.get('id') on None raises AttributeError, which no handler catches
vip_get_network_domain ==
    /\ pc = "vip_function_info"
    /\ \E out \in {"found", "none", "error"} :
          /\ Call("get_network_domain_by_name", None, EmptyDict, out # "error", None)
          /\ IF out = "found" THEN pc' = "list_vip_function" /\ UNCHANGED result
             ELSE IF out = "none" THEN traceback
             ELSE fail_json("Could not find the Cloud Network Domain")
    /\ UNCHANGED <<invocation, remote, client, user, changed, others>>

\* vip_function_info.main: client.list_vip_function(...), count, exit_json
list_vip_function ==
    /\ pc = "list_vip_function"
    /\ \E ok \in BOOLEAN :
          /\ Call("list_vip_function", None, EmptyDict, ok, None)
          /\ IF ok
             THEN exit_json(None, Some([count |-> 0, vip_function |-> <<>>]), "")
             ELSE fail_json("Could not find any VIP Functions")
    /\ UNCHANGED <<invocation, remote, client, user, changed, others>>

Next ==
    \/ GetCredentials
    \/ CheckRegion
    \/ CheckCredentials
    \/ NewClient
    \/ SearchUser
    \/ MainState
    \/ create_user
    \/ create_user_get
    \/ change_password
    \/ MainCompare
    \/ update_user_roles
    \/ OtherClient
    \/ update_user_roles_get
    \/ MainCompareFields
    \/ update_user
    \/ update_user_get
    \/ delete_user
    \/ user_info
    \/ get_geo
    \/ vip_get_network_domain
    \/ list_vip_function

Spec == Init /\ [][Next]_vars

(***************************************************************************)
(* The user module run twice in a row with the same present-state          *)
(* parameters, outside check mode, with no other client of the API.        *)
(***************************************************************************)
InitTwice ==
    /\ Init
    /\ mod = "user" /\ params.state = "present" /\ ~check_mode
    /\ params.region = "na" /\ cred = "ok"

\* the playbook is run again after a run that ended in exit_json: main() starts
\* over with the same module.params against the users the API now holds
Rerun ==
    /\ run = 1
    /\ pc = "done"
    /\ result # None /\ Val(result).kind = "exit_json"
    /\ run' = 2
    /\ pc' = "get_credentials"
    /\ client' = FALSE
    /\ user' = None
    /\ changed' = FALSE
    /\ calls' = <<>>
    /\ result' = None
    /\ UNCHANGED <<mod, params, check_mode, cred, remote, others>>

NextTwice ==
    \/ GetCredentials
    \/ CheckRegion
    \/ CheckCredentials
    \/ NewClient
    \/ SearchUser
    \/ MainState
    \/ create_user
    \/ create_user_get
    \/ change_password
    \/ MainCompare
    \/ update_user_roles
    \/ update_user_roles_get
    \/ MainCompareFields
    \/ update_user
    \/ update_user_get
    \/ Rerun

SpecTwice == InitTwice /\ [][NextTwice]_vars

(***************************************************************************)
(* Properties of the user module's runs.                                   *)
(***************************************************************************)
\* the positions in calls of the calls named op, and of the write calls
Issued(op) == {i \in DOMAIN calls : calls[i].op = op}
WriteCalls == {i \in DOMAIN calls : calls[i].op \in WriteOps}
\* the initial search has returned: Fetched is the observed user, or None
HasFetched == mod = "user" /\ calls # <<>> /\ calls[1].ok
Fetched == calls[1].ret
PresentExisting == HasFetched /\ params.state = "present" /\ Fetched # None

\* C1: in check mode the user module never issues a write call to the client,
\* whatever the state, the parameters (new_password included) and the observed user.
C1_CheckModeNeverWrites ==
    (mod = "user" /\ check_mode) => WriteCalls = {}

\* C2: with state=present, create_user is called only when the initial search
\* returned no user; when it returned a user the only write calls are
\* change_user_password, set_user_roles and update_user.
C2_CreateOnlyWhenAbsent ==
    (mod = "user" /\ params.state = "present") =>
        /\ Issued("create_user") # {} => HasFetched /\ Fetched = None
        /\ PresentExisting =>
              \A i \in WriteCalls :
                 calls[i].op \in {"change_user_password", "set_user_roles", "update_user"}

C2_Witness ==
    /\ mod = "user" /\ params.state = "present"
    /\ HasFetched /\ Fetched = None
    /\ \E i \in Issued("create_user") : calls[i].ok

\* C3: on an existing user the write calls come in the order change_user_password,
\* set_user_roles, update_user: no password change follows a role update or a
\* field update, and no role update follows a field update.
C3_WriteOrder ==
    PresentExisting =>
        \A i, j \in WriteCalls :
           i < j =>
              /\ calls[j].op = "change_user_password" =>
                    calls[i].op \notin {"set_user_roles", "update_user"}
              /\ calls[j].op = "set_user_roles" => calls[i].op # "update_user"

C3_Witness ==
    /\ PresentExisting
    /\ \E i, j, k \in WriteCalls :
          /\ i < j /\ j < k
          /\ calls[i].op = "change_user_password"
          /\ calls[j].op = "set_user_roles"
          /\ calls[k].op = "update_user"

\* C4: when a write call raises an API exception it is the last call of the run
\* and the run has ended in fail_json; the writes accepted before it stay issued
\* and no call undoes them.
C4_FailedWriteEndsRun ==
    mod = "user" =>
        \A i \in WriteCalls :
           ~calls[i].ok =>
              /\ i = Len(calls)
              /\ pc = "done"
              /\ result # None /\ Val(result).kind = "fail_json"

C4_Witness ==
    /\ mod = "user"
    /\ \E i, j \in WriteCalls : i < j /\ calls[i].ok /\ ~calls[j].ok
    /\ pc = "done"

\* the key of the user record that each str parameter is written to
FieldKey ==
    [fullname |-> "fullName", firstname |-> "firstName", lastname |-> "lastName",
     email |-> "emailAddress", department |-> "department",
     custom_1 |-> "customDefined1", custom_2 |-> "customDefined2"]

\* the number parameter n equals the observed string o (None: the key is not there)
NumEquals(n, o) == IF o = None THEN n = None ELSE n # None /\ Some(str(Val(n))) = o

\* every parameter of the desired state equals the observed value
Matches(p, u) ==
    /\ \A f \in StrFields : p[f] = Get(u, FieldKey[f])
    /\ IF Get(u, "phone") = None
       THEN p.phone = None /\ p.phone_country_code = None
       ELSE /\ NumEquals(p.phone, Get(Val(u["phone"]), "number"))
            /\ NumEquals(p.phone_country_code, Get(Val(u["phone"]), "countryCode"))
    /\ p.roles = Get(u, "role")

\* C5: on an existing user, a present-state run whose fullname, firstname, lastname,
\* email, phone, phone_country_code, department, custom_1, custom_2 and roles each
\* equal the observed value, without new_password and with remove_phone false,
\* issues no write call and does not report changed=true (it reports changed=false
\* when it is no check-mode run).
C5_DesiredEqualsObserved ==
    (/\ PresentExisting
     /\ Matches(params, Val(Fetched))
     /\ params.new_password = None
     /\ ~params.remove_phone) =>
        /\ WriteCalls = {}
        /\ pc \in {"state", "change_password", "compare_user", "compare_fields", "done"}
        /\ pc = "done" =>
              /\ result # None /\ Val(result).kind = "exit_json"
              /\ Val(result).changed = IF check_mode THEN None ELSE Some(FALSE)

C5_Witness ==
    /\ PresentExisting
    /\ Matches(params, Val(Fetched))
    /\ params.new_password = None /\ ~params.remove_phone /\ ~check_mode
    /\ params.phone # None /\ params.department # None
    /\ pc = "done"
    /\ Val(result).changed = Some(FALSE)

\* no optional parameter of the user module is supplied
OnlyUsername(p) ==
    /\ \A f \in StrFields \cup {"password", "new_password", "roles", "phone",
                                "phone_country_code"} : p[f] = None
    /\ ~p.remove_phone

\* C6: a parameter the caller did not supply (None) never appears in a delta and
\* never causes a write: the candidate record keeps the observed value of every
\* unsupplied field (roles included), and a run that supplies only username issues
\* no set_user_roles and no update_user call.
C6_UnsuppliedUntouched ==
    mod = "user" =>
        /\ user # None =>
              \A fc \in BOOLEAN :
                 LET c == new_user(params, Val(user), fc)
                 IN /\ \A f \in StrFields :
                          params[f] = None =>
                             Get(c, FieldKey[f]) = Get(Val(user), FieldKey[f])
                    /\ params.roles = None => Get(c, "role") = Get(Val(user), "role")
                    /\ (params.phone = None /\ params.phone_country_code = None
                        /\ ~params.remove_phone) =>
                          Get(c, "phone") = Get(Val(user), "phone")
        /\ OnlyUsername(params) =>
              Issued("set_user_roles") = {} /\ Issued("update_user") = {}

NoPasswordCompared ==
    (mod = "user" /\ user # None) =>
        \A fc \in BOOLEAN :
           /\ DOMAIN new_user(params, Val(user), fc) \cap {"password", "new_password"} = {}
           /\ compare_user(params, Val(user), fc).delta \cap {"password", "new_password"} = {}
           /\ \A k \in DOMAIN new_user(params, Val(user), fc) \ DOMAIN Val(user) :
                 k \in {"department", "customDefined1", "customDefined2", "phone",
                        "fullName", "firstName", "lastName", "emailAddress", "role"}

\* the run is past the password step of a present-state run on an existing user
PastPassword == PresentExisting /\ pc \notin {"state", "change_password"}

\* C8 as stated: passwords take no part in the comparison, and on an existing user
\* a supplied new_password (any value but None) always yields a
\* change_user_password call.
C8_SuppliedPasswordChanged ==
    /\ NoPasswordCompared
    /\ (PastPassword /\ params.new_password # None) =>
          Issued("change_user_password") # {}

\* C8 amended: passwords take no part in the comparison, and in a present-state
\* run on an existing user a non-empty new_password always yields exactly one
\* change_user_password call, whether or not any other field differs; an empty
\* or unsupplied new_password yields none.
C8_NonEmptyPasswordChanged ==
    /\ NoPasswordCompared
    /\ PastPassword =>
          Cardinality(Issued("change_user_password"))
             = IF TruthyStr(params.new_password) THEN 1 ELSE 0

C8_Witness ==
    /\ PastPassword
    /\ params.new_password = Some("p")
    /\ ~compare_user(params, Val(Fetched), TRUE).changes
    /\ \E i \in Issued("change_user_password") : calls[i].ok
    /\ pc = "done"

\* C9: deletion is idempotent: with state=absent, when the search finds no user the
\* run ends in exit_json without a remove_user call and without changed=true; when
\* it finds the user, outside check mode, remove_user is called exactly once.
C9_DeleteIdempotent ==
    (HasFetched /\ params.state = "absent") =>
        /\ WriteCalls = Issued("remove_user")
        /\ Cardinality(Issued("remove_user")) <= 1
        /\ pc \in {"state", "delete_user", "done"}
        /\ Fetched = None =>
              /\ Issued("remove_user") = {}
              /\ pc \in {"state", "done"}
              /\ pc = "done" => /\ Val(result).kind = "exit_json"
                                /\ Val(result).changed # Some(TRUE)
        /\ (Fetched # None /\ pc = "done") =>
              Cardinality(Issued("remove_user")) = IF check_mode THEN 0 ELSE 1

C9_Witness ==
    /\ HasFetched /\ params.state = "absent"
    /\ Fetched # None
    /\ pc = "done"
    /\ \E i \in Issued("remove_user") : calls[i].ok
    /\ Val(result).changed = Some(TRUE)

\* the region is not in get_regions() or get_credentials gave no credentials
BadConfiguration == params.region \notin get_regions \/ cred # "ok"

\* C10: in user, user_info, geo_info and vip_function_info a region outside
\* get_regions() or unresolved credentials (False, or ImportError) end the run in
\* fail_json before NTTMCPClient is constructed and before any client call.
C10_ConfigurationFirst ==
    BadConfiguration =>
        /\ ~client
        /\ calls = <<>>
        /\ pc \in {"get_credentials", "check_region", "check_credentials", "done"}
        /\ pc = "check_region" => cred # "import_error"
        /\ pc = "check_credentials" => params.region \in get_regions
        /\ pc = "done" => result # None /\ Val(result).kind = "fail_json"

C10_Witness ==
    /\ mod = "geo_info"
    /\ cred = "false"
    /\ pc = "done"
    /\ Val(result).kind = "fail_json"

\* a required field of a new user is missing, or phone comes without its country code
MissingRequired(p) ==
    \/ \E f \in {"password", "fullname", "firstname", "lastname", "email"} : p[f] = None
    \/ p.phone # None /\ p.phone_country_code = None

ValidationMessages ==
    {"A valid value for username, password, fullname, firstname, lastname and email are required",
     "phone_country_code is required when a value for phone is present"}

\* C11 as stated: when the required fields of a new user are missing or malformed
\* the failure is reported with no client call of any kind attempted in the run.
C11_InvalidInputBeforeAnyCall ==
    (mod = "user" /\ result # None /\ Val(result).kind = "fail_json"
     /\ Val(result).msg \in ValidationMessages) =>
        calls = <<>>

\* C11 amended: in a present-state run outside check mode whose search finds no
\* user, a missing password, fullname, firstname, lastname or email, or a phone
\* without phone_country_code, ends the run in fail_json right after the search:
\* the search is the only client call issued and no write call is attempted.
C11_InvalidInputBeforeAnyWrite ==
    (/\ HasFetched /\ params.state = "present" /\ Fetched = None
     /\ ~check_mode
     /\ MissingRequired(params)) =>
        /\ Len(calls) = 1
        /\ WriteCalls = {}
        /\ pc \in {"state", "create_user", "done"}
        /\ pc = "done" => /\ result # None /\ Val(result).kind = "fail_json"
                          /\ Val(result).msg \in ValidationMessages

C11_Witness ==
    /\ HasFetched /\ params.state = "present" /\ Fetched = None
    /\ ~check_mode
    /\ params.password # None /\ params.fullname # None
    /\ params.phone # None /\ params.phone_country_code = None
    /\ pc = "done"
    /\ Val(result).kind = "fail_json"

\* the write calls that the API accepted, and those that raised
AppliedWrites == {i \in WriteCalls : calls[i].ok}
FailedWrites == {i \in WriteCalls : ~calls[i].ok}

\* C12: when a write call fails after earlier writes of the run succeeded, the
\* reported failure tells which writes were already applied: at the least it
\* carries changed=true or the data of the changed user (fail_json is given the
\* text of the exception of the failing call and nothing else).
C12_FailureReportsApplied ==
    (/\ mod = "user"
     /\ AppliedWrites # {} /\ FailedWrites # {}
     /\ result # None /\ Val(result).kind = "fail_json") =>
        \/ Val(result).changed = Some(TRUE)
        \/ Val(result).data # None

\* the searches of the run, and what the latest search before call i returned
ReadCalls == {i \in DOMAIN calls : calls[i].op \in {"get_user", "get_my_user"}}
ReadBefore(i) ==
    calls[CHOOSE j \in ReadCalls :
             j < i /\ \A k \in ReadCalls : k < i => k <= j].ret
ExitedWithoutUpdate ==
    /\ ~check_mode /\ pc = "done"
    /\ result # None /\ Val(result).kind = "exit_json"
    /\ Issued("update_user") = {}

\* C13 as claimed: whether update_user is called depends on the user that the
\* initial search returned and on the parameters only: it is called only when
\* they differ in a non-role field, and a run that ends without it found none.
C13_DecisionFromInitialSnapshot ==
    PresentExisting =>
        /\ Issued("update_user") # {} =>
              compare_user(params, Val(Fetched), FALSE).changes
        /\ ExitedWithoutUpdate =>
              ~compare_user(params, Val(Fetched), FALSE).changes

\* C13 amended: whether update_user is called depends on the latest search of
\* the run (the initial one, or the one after set_user_roles when roles were
\* updated) and on the parameters: it is called only when that user differs
\* from them in a non-role field, and a run that ends without it found no
\* difference with that user, or found that user gone.
C13_DecisionFromLatestRead ==
    PresentExisting =>
        /\ \A i \in Issued("update_user") :
              /\ ReadBefore(i) # None
              /\ compare_user(params, Val(ReadBefore(i)), FALSE).changes
        /\ ExitedWithoutUpdate =>
              \/ ReadBefore(Len(calls) + 1) = None
              \/ ~compare_user(params, Val(ReadBefore(Len(calls) + 1)), FALSE).changes

\* an update_user that the initial snapshot does not call for, after a role
\* update and a change by another client
C13_Witness ==
    /\ PresentExisting
    /\ \E i \in Issued("set_user_roles"), j \in Issued("update_user") : i < j
    /\ ~compare_user(params, Val(Fetched), FALSE).changes
    /\ ReadBefore(Len(calls)) # Fetched

\* C14: a run of the user module outside check mode that ends in exit_json
\* reports changed=true exactly when it issued a write call (create_user,
\* change_user_password, set_user_roles, update_user or remove_user), and
\* changed=false or no changed at all when it issued none.
C14_ChangedIffWritten ==
    (/\ mod = "user" /\ ~check_mode /\ pc = "done"
     /\ result # None /\ Val(result).kind = "exit_json") =>
        /\ Val(result).changed = Some(TRUE) <=> WriteCalls # {}
        /\ WriteCalls = {} => Val(result).changed \in {None, Some(FALSE)}

\* a password change alone, reported through main's changed flag
C14_Witness ==
    /\ mod = "user" /\ ~check_mode /\ pc = "done"
    /\ result # None /\ Val(result).kind = "exit_json"
    /\ WriteCalls # {}
    /\ \A i \in WriteCalls : calls[i].op = "change_user_password"
    /\ Val(result).changed = Some(TRUE)

\* a run that wrote nothing and says so
C14_WitnessUnchanged ==
    /\ PresentExisting /\ ~check_mode /\ pc = "done"
    /\ result # None /\ Val(result).kind = "exit_json"
    /\ WriteCalls = {}
    /\ Val(result).changed = Some(FALSE)

\* a present-state run outside check mode whose initial search found no user
CreatePath ==
    HasFetched /\ params.state = "present" /\ Fetched = None /\ ~check_mode
\* call i carries the supplied parameters as they are
Verbatim(i) ==
    /\ calls[i].username = params.username
    /\ \A f \in DOMAIN calls[i].args : calls[i].args[f] = params[f]
\* the run is not at a comparison, nor past one
NoComparison ==
    pc \in {"state", "create_user", "create_user_get", "done"}

\* C15 as claimed: for every desired state, a present-state run outside check
\* mode that finds no user issues create_user with the supplied fields verbatim,
\* password included, and compares nothing.
C15_AbsentYieldsCreate ==
    CreatePath =>
        /\ NoComparison
        /\ \A i \in WriteCalls : calls[i].op = "create_user" /\ Verbatim(i)
        /\ pc = "done" => Issued("create_user") # {}

\* C15 amended: the same for every desired state that passes create_user's
\* validation (password, fullname, firstname, lastname and email supplied, no
\* phone without phone_country_code): one create_user call, verbatim payload,
\* no comparison; a desired state that does not pass it yields no create call.
C15_ValidAbsentYieldsCreate ==
    CreatePath =>
        /\ NoComparison
        /\ \A i \in WriteCalls : calls[i].op = "create_user" /\ Verbatim(i)
        /\ Cardinality(Issued("create_user")) <= 1
        /\ pc = "done" => (Issued("create_user") # {} <=> ~MissingRequired(params))

C15_Witness ==
    /\ CreatePath /\ pc = "done"
    /\ result # None /\ Val(result).kind = "exit_json"
    /\ \E i \in Issued("create_user") :
          /\ calls[i].ok
          /\ calls[i].args.password = params.password
          /\ TruthyStr(params.password)
          /\ params.phone # None

\* the candidate record that compare_user builds from the observed user, and
\* the phone number / country code in it (None when it has no phone)
Candidate == new_user(params, Val(Fetched), TRUE)
CandidatePhoneField(k) ==
    IF Get(Candidate, "phone") = None THEN None
    ELSE Get(Val(Candidate["phone"]), k)
ObservedHasPhone == Get(Val(Fetched), "phone") # None

C16_WitnessWritten ==
    /\ PresentExisting /\ pc = "done"
    /\ ~params.remove_phone /\ ~ObservedHasPhone
    /\ params.phone # None /\ params.phone_country_code # None
    /\ CandidatePhoneField("number") = Some("6")
    /\ CandidatePhoneField("countryCode") = Some("1")

\* the parameters ask for nothing but roles and a new password
OnlyRolesOrPassword(p) ==
    /\ \A f \in StrFields : p[f] = None
    /\ p.phone = None /\ p.phone_country_code = None /\ ~p.remove_phone
\* the candidate built without roles differs from the user u it was built from
FieldDelta(u) == compare_json(new_user(params, u, FALSE), u).changes

\* C17: on an existing user update_user is called exactly when, after the
\* password change and the role update, the user in hand differs from the
\* parameters in a field other than role and password; parameters that give
\* only roles and/or new_password never lead to update_user, and such a run
\* writes nothing but the password and the roles.
C17_UpdateIffFieldDelta ==
    (PresentExisting /\ ~check_mode) =>
        /\ (pc \in {"update_user", "update_user_get"} \/ Issued("update_user") # {}) =>
              user # None /\ FieldDelta(Val(user))
        /\ ExitedWithoutUpdate => (user = None \/ ~FieldDelta(Val(user)))
        /\ OnlyRolesOrPassword(params) =>
              \A i \in WriteCalls :
                 calls[i].op \in {"change_user_password", "set_user_roles"}

\* roles and a new password alone: both written, the run ends without update_user
C17_Witness ==
    /\ PresentExisting /\ ~check_mode /\ pc = "done"
    /\ OnlyRolesOrPassword(params)
    /\ result # None /\ Val(result).kind = "exit_json"
    /\ Issued("change_user_password") # {} /\ Issued("set_user_roles") # {}
    /\ Issued("update_user") = {}
    /\ user # None

\* a field delta after a role update: update_user is called
C17_WitnessUpdate ==
    /\ PresentExisting /\ ~check_mode
    /\ Issued("set_user_roles") # {}
    /\ \E i \in Issued("update_user") : calls[i].ok
    /\ FieldDelta(Val(Fetched))

\* a present-state run outside check mode that wrote and ended in exit_json
WroteAndExited ==
    /\ mod = "user" /\ params.state = "present" /\ ~check_mode
    /\ pc = "done" /\ result # None /\ Val(result).kind = "exit_json"
    /\ WriteCalls # {}
LastWrite == CHOOSE w \in WriteCalls : \A v \in WriteCalls : v <= w
\* the data reported is what a search issued after the last write returned
DataReadAfterLastWrite ==
    /\ Len(calls) \in ReadCalls
    /\ LastWrite < Len(calls)
    /\ Val(result).data = calls[Len(calls)].ret

\* C18 as claimed: after any write of a present-state run the user data
\* returned on success was read from the API after the last write call.
C18_DataReadAfterLastWrite ==
    WroteAndExited => DataReadAfterLastWrite

\* C18 amended: that holds when the last write is create_user, set_user_roles
\* or update_user; when it is change_user_password, no search follows it and the
\* data returned is the user of the initial search.
C18_DataReadAfterLastPayloadWrite ==
    WroteAndExited =>
        IF calls[LastWrite].op = "change_user_password"
        THEN /\ LastWrite = Len(calls)
             /\ ReadCalls = {1}
             /\ Val(result).data = Fetched
        ELSE DataReadAfterLastWrite

\* a role update as last write: the data returned is the user read after it
C18_Witness ==
    /\ WroteAndExited
    /\ calls[LastWrite].op = "set_user_roles"
    /\ Val(result).data = calls[Len(calls)].ret
    /\ Val(result).data # Fetched

\* a field update: the data returned shows it
C18_WitnessUpdate ==
    /\ WroteAndExited
    /\ calls[LastWrite].op = "update_user"
    /\ Val(result).data # None /\ Val(result).data # user

\* a user_info run that ended in exit_json, and the users it reports
InfoExited ==
    /\ mod = "user_info" /\ pc = "done"
    /\ result # None /\ Val(result).kind = "exit_json"
InfoData == Val(Val(result).data)
SingleLookup == params.my_user \/ params.username # None

\* C19: in every successful user_info result data.count is the number of users
\* in data.user; with my_user or username the result holds the one user that
\* get_my_user / get_user returned, or no user when it returned None, and
\* list_users is not called; only with neither is list_users called, with the
\* filter parameters.
C19_CountIsLength ==
    InfoExited =>
        /\ InfoData.count = Len(InfoData.user)
        /\ Len(calls) = 1
        /\ IF SingleLookup
           THEN /\ calls[1].op = IF params.my_user THEN "get_my_user" ELSE "get_user"
                /\ calls[1].args = EmptyDict
                /\ InfoData.user = IF calls[1].ret = None THEN <<>>
                                   ELSE <<Val(calls[1].ret)>>
           ELSE /\ calls[1].op = "list_users"
                /\ calls[1].args = ListFilters(params)

\* a lookup by username of a user the API does not hold: count 0
C19_Witness ==
    /\ InfoExited
    /\ ~params.my_user /\ params.username # None
    /\ calls[1].ret = None
    /\ InfoData.count = 0 /\ InfoData.user = <<>>

\* a filtered list of two users
C19_WitnessList ==
    /\ InfoExited /\ ~SingleLookup
    /\ params.firstname # None
    /\ InfoData.count = 2

\* C20: every write call of a run on a fetched user names that user: the
\* username given to change_user_password, set_user_roles, update_user and
\* remove_user is the userName of the user the initial search returned, also
\* with my_user=true and a username parameter that names another account.
C20_WritesTargetFetchedUser ==
    (HasFetched /\ Fetched # None) =>
        \A i \in WriteCalls : calls[i].username = Get(Val(Fetched), "userName")

\* the second run has ended in exit_json
SecondExited ==
    /\ run = 2 /\ pc = "done"
    /\ result # None /\ Val(result).kind = "exit_json"

\* C21: the user module run twice in a row with the same present-state
\* parameters converges: after a first run that succeeded, the second run
\* issues no write call and reports changed=false, whatever the parameters,
\* new_password and remove_phone included.
C21_SecondRunWritesNothing ==
    run = 2 =>
        /\ WriteCalls = {}
        /\ SecondExited => Val(result).changed = Some(FALSE)

\* what a check-mode run reports for the observed user: compare_user with roles
CheckReport == compare_user(params, Val(Fetched), TRUE)
\* the role and field writes of the run
PayloadWrites == Issued("set_user_roles") \cup Issued("update_user")

\* C22: check mode predicts the real run on an existing user: the comparison a
\* check-mode run reports shows changes exactly when the run outside check mode,
\* with the same parameters and observed user and no other client at work,
\* issues set_user_roles or update_user, also with roles empty or not supplied.
C22_CheckPredictsRun ==
    PresentExisting =>
        /\ (check_mode /\ pc = "done" /\ result # None
            /\ Val(result).kind = "exit_json") =>
              Val(result).data = Some(CheckReport)
        /\ (~check_mode /\ others = 0) =>
              /\ PayloadWrites # {} => CheckReport.changes
              /\ (pc = "done" /\ result # None /\ Val(result).kind = "exit_json"
                  /\ PayloadWrites = {}) => ~CheckReport.changes

\* C23: every invocation of the user module ends in one reported result,
\* exit_json or fail_json, whatever the API calls return or raise: the run is
\* never ended by an exception that nothing handles, also when the search after
\* a role update returns no user.
C23_AlwaysReported ==
    mod = "user" =>
        /\ pc # "crashed"
        /\ pc = "done" => result # None

\* the calls that carry the phone parameters
PhoneWrites == Issued("create_user") \cup Issued("update_user")

\* C24: phone_country_code is required with phone on every write path: no
\* create_user or update_user call carries a phone and no phone_country_code,
\* and a phone_country_code supplied for an observed user without a phone is
\* not silently ignored: a run that reports success has sent it to the API.
C24_CountryCodeWithPhone ==
    mod = "user" =>
        /\ \A i \in PhoneWrites :
              calls[i].args.phone # None => calls[i].args.phone_country_code # None
        /\ (/\ PresentExisting /\ ~check_mode
            /\ params.phone_country_code # None /\ ~params.remove_phone
            /\ ~ObservedHasPhone
            /\ pc = "done" /\ result # None /\ Val(result).kind = "exit_json") =>
              \E i \in Issued("update_user") :
                 calls[i].args.phone_country_code = params.phone_country_code

====
